---- MODULE Spec2Model ----
(***************************************************************************)
(* Model of package config of go-boilerplate: the Environment enum         *)
(* (String, ToEnvironment), the section structs with their validate tags,  *)
(* LoadFromEnv (koanf env provider + Unmarshal) and Validate.              *)
(*                                                                         *)
(* A Go string is a sequence of one-character strings, so that case        *)
(* folding, prefix trimming, splitting and number parsing are computed.    *)
(* A pointer is a sequence of length 0 (nil) or 1.  An error is a sequence *)
(* of length 0 (nil) or 1.  A slice is a record with a nil flag.           *)
(***************************************************************************)
EXTENDS Integers, Sequences, FiniteSets, TLC

VARIABLES
    pc,       \* position of the caller: which call comes next
    environ,  \* the process environment: variable name -> value
    edits,    \* number of changes made to the inputs so far
    conf,     \* *Config: the value LoadFromEnv returned / Validate is given
    loadErr,  \* error returned by LoadFromEnv
    valRes,   \* outcome of Validate: its error and the checks it ran
    str,      \* the string handed to ToEnvironment
    envVal,   \* an Environment value (result of ToEnvironment / receiver of String)
    rendered  \* result of Environment.String()

vars == <<pc, environ, edits, conf, loadErr, valRes, str, envVal, rendered>>

----------------------------------------------------------------------------
(* Strings *)

LowerAlpha == <<"a","b","c","d","e","f","g","h","i","j","k","l","m",
                "n","o","p","q","r","s","t","u","v","w","x","y","z">>

UpperAlpha == <<"A","B","C","D","E","F","G","H","I","J","K","L","M",
                "N","O","P","Q","R","S","T","U","V","W","X","Y","Z">>

Digits == <<"0","1","2","3","4","5","6","7","8","9">>

IndexOf(c, alphabet) ==
    IF \E i \in DOMAIN alphabet : alphabet[i] = c
    THEN CHOOSE i \in DOMAIN alphabet : alphabet[i] = c
    ELSE 0

\* the case mapping of the letters, as tables
LowerTable ==
    [c \in {UpperAlpha[i] : i \in DOMAIN UpperAlpha} |-> LowerAlpha[IndexOf(c, UpperAlpha)]]

UpperTable ==
    [c \in {LowerAlpha[i] : i \in DOMAIN LowerAlpha} |-> UpperAlpha[IndexOf(c, LowerAlpha)]]

ToLowerChar(c) == IF c \in DOMAIN LowerTable THEN LowerTable[c] ELSE c

ToUpperChar(c) == IF c \in DOMAIN UpperTable THEN UpperTable[c] ELSE c

RECURSIVE MapChars(_, _)
MapChars(s, upper) ==
    IF s = <<>> THEN <<>>
    ELSE <<IF upper THEN ToUpperChar(Head(s)) ELSE ToLowerChar(Head(s))>>
         \o MapChars(Tail(s), upper)

\* strings.ToLower, on the characters of the model's alphabet
ToLower(s) == MapChars(s, FALSE)

\* upper-casing, used only to write the names of environment variables
ToUpper(s) == MapChars(s, TRUE)

HasPrefix(s, p) == Len(s) >= Len(p) /\ SubSeq(s, 1, Len(p)) = p

\* strings.TrimPrefix
TrimPrefix(s, p) == IF HasPrefix(s, p) THEN SubSeq(s, Len(p) + 1, Len(s)) ELSE s

\* strings.Split(s, sep) for a one-character separator
RECURSIVE SplitAcc(_, _, _)
SplitAcc(s, sep, cur) ==
    IF s = <<>> THEN <<cur>>
    ELSE IF Head(s) = sep THEN <<cur>> \o SplitAcc(Tail(s), sep, <<>>)
    ELSE SplitAcc(Tail(s), sep, Append(cur, Head(s)))

Split(s, sep) == SplitAcc(s, sep, <<>>)

----------------------------------------------------------------------------
(* Environment enum *)

EnvironmentStaging == <<"S","T","A","G","I","N","G">>

EnvironmentProduction == <<"P","R","O","D","U","C","T","I","O","N">>

EnvironmentDevelopment == <<"D","E","V","E","L","O","P","M","E","N","T">>

s_prod == <<"p","r","o","d">>
s_production == <<"p","r","o","d","u","c","t","i","o","n">>
s_staging == <<"s","t","a","g","i","n","g">>
s_uat == <<"u","a","t">>
s_qa == <<"q","a">>
s_testing == <<"t","e","s","t","i","n","g">>
s_dev == <<"d","e","v">>
s_develop == <<"d","e","v","e","l","o","p">>
s_development == <<"d","e","v","e","l","o","p","m","e","n","t">>
s_local == <<"l","o","c","a","l">>

\* String with the names of two cases exchanged
String_SwappedNames(e) ==
    CASE e = EnvironmentStaging -> s_production
      [] e = EnvironmentProduction -> s_staging
      [] e = EnvironmentDevelopment -> s_development
      [] OTHER -> s_development

\* String whose default case lowercases the value instead of falling back
String_LowercaseDefault(e) ==
    CASE e = EnvironmentStaging -> s_staging
      [] e = EnvironmentProduction -> s_production
      [] e = EnvironmentDevelopment -> s_development
      [] OTHER -> ToLower(e)

\* func (e Environment) String() string
String(e) ==
    CASE e = EnvironmentStaging -> s_staging
      [] e = EnvironmentProduction -> s_production
      [] e = EnvironmentDevelopment -> s_development
      [] OTHER -> s_development

\* ToEnvironment switching on str instead of strings.ToLower(str)
ToEnvironment_CaseSensitive(s) ==
    CASE s \in {s_prod, s_production} -> EnvironmentProduction
      [] s \in {s_staging, s_uat, s_qa, s_testing} -> EnvironmentStaging
      [] s \in {s_dev, s_develop, s_development, s_local} -> EnvironmentDevelopment
      [] OTHER -> EnvironmentDevelopment

\* func ToEnvironment(str string) Environment
ToEnvironment(s) ==
    LET l == ToLower(s) IN
    CASE l \in {s_prod, s_production} -> EnvironmentProduction
      [] l \in {s_staging, s_uat, s_qa, s_testing} -> EnvironmentStaging
      [] l \in {s_dev, s_develop, s_development, s_local} -> EnvironmentDevelopment
      [] OTHER -> EnvironmentDevelopment

----------------------------------------------------------------------------
(* The structs of model.go: for every field its Go name, its koanf tag,    *)
(* its type and its validate tag, in declaration order.                    *)

LoggingFields == <<
    [name |-> "Level", type |-> "string", validate |-> "required",
     koanf |-> <<"l","e","v","e","l">>],
    [name |-> "OutputPaths", type |-> "strings", validate |-> "required",
     koanf |-> <<"o","u","t","p","u","t","_","p","a","t","h","s">>] >>

ServiceFields == <<
    [name |-> "Name", type |-> "string", validate |-> "required",
     koanf |-> <<"s","e","r","v","i","c","e","_","n","a","m","e">>],
    [name |-> "Version", type |-> "string", validate |-> "required",
     koanf |-> <<"s","e","r","v","i","c","e","_","v","e","r","s","i","o","n">>],
    [name |-> "Environment", type |-> "Environment", validate |-> "required",
     koanf |-> <<"s","e","r","v","i","c","e","_","e","n","v","i","r","o","n","m","e","n","t">>] >>

ServerFields == <<
    [name |-> "Host", type |-> "string", validate |-> "required",
     koanf |-> <<"s","e","r","v","e","r","_","h","o","s","t">>],
    [name |-> "Port", type |-> "uint", validate |-> "required",
     koanf |-> <<"s","e","r","v","e","r","_","p","o","r","t">>],
    [name |-> "ReadTimeout", type |-> "duration", validate |-> "required",
     koanf |-> <<"s","e","r","v","e","r","_","r","e","a","d","_","t","i","m","e","o","u","t">>],
    [name |-> "WriteTimeout", type |-> "duration", validate |-> "required",
     koanf |-> <<"s","e","r","v","e","r","_","w","r","i","t","e","_","t","i","m","e","o","u","t">>],
    [name |-> "IdleTimeout", type |-> "duration", validate |-> "required",
     koanf |-> <<"s","e","r","v","e","r","_","i","d","l","e","_","t","i","m","e","o","u","t">>],
    [name |-> "ShutdownTimeout", type |-> "duration", validate |-> "required",
     koanf |-> <<"s","e","r","v","e","r","_","s","h","u","t","d","o","w","n","_","t","i","m","e","o","u","t">>] >>

DatabaseFields == <<
    [name |-> "Host", type |-> "string", validate |-> "required",
     koanf |-> <<"d","b","_","h","o","s","t">>],
    [name |-> "Port", type |-> "int", validate |-> "required",
     koanf |-> <<"d","b","_","p","o","r","t">>],
    [name |-> "User", type |-> "string", validate |-> "required",
     koanf |-> <<"d","b","_","u","s","e","r">>],
    [name |-> "Password", type |-> "string", validate |-> "",
     koanf |-> <<"d","b","_","p","a","s","s","w","o","r","d">>],
    [name |-> "Name", type |-> "string", validate |-> "required",
     koanf |-> <<"d","b","_","n","a","m","e">>],
    [name |-> "SSLMode", type |-> "string", validate |-> "required",
     koanf |-> <<"d","b","_","s","s","l","_","m","o","d","e">>],
    [name |-> "MaxOpenConns", type |-> "int", validate |-> "required",
     koanf |-> <<"d","b","_","m","a","x","_","o","p","e","n","_","c","o","n","n","s">>],
    [name |-> "MaxIdleConns", type |-> "int", validate |-> "required",
     koanf |-> <<"d","b","_","m","a","x","_","i","d","l","e","_","c","o","n","n","s">>],
    [name |-> "ConnMaxLifetime", type |-> "int", validate |-> "required",
     koanf |-> <<"d","b","_","c","o","n","n","_","m","a","x","_","l","i","f","e","t","i","m","e">>],
    [name |-> "ConnMaxIdleTime", type |-> "int", validate |-> "required",
     koanf |-> <<"d","b","_","c","o","n","n","_","m","a","x","_","i","d","l","e","_","t","i","m","e">>] >>

HealthChecksFields == <<
    [name |-> "Enabled", type |-> "bool", validate |-> "",
     koanf |-> <<"e","n","a","b","l","e","d">>],
    [name |-> "Checks", type |-> "strings", validate |-> "",
     koanf |-> <<"c","h","e","c","k","s">>],
    [name |-> "Timeout", type |-> "duration", validate |-> "min=1s",
     koanf |-> <<"t","i","m","e","o","u","t">>],
    [name |-> "Interval", type |-> "duration", validate |-> "min=1s",
     koanf |-> <<"i","n","t","e","r","v","a","l">>] >>

ConfigFields == <<
    [name |-> "Server", type |-> "ptr", validate |-> "required",
     koanf |-> <<"s","e","r","v","e","r">>],
    [name |-> "Logging", type |-> "ptr", validate |-> "required",
     koanf |-> <<"l","o","g","g","i","n","g">>],
    [name |-> "Database", type |-> "ptr", validate |-> "required",
     koanf |-> <<"d","a","t","a","b","a","s","e">>],
    [name |-> "Service", type |-> "ptr", validate |-> "required",
     koanf |-> <<"a","p","p","l","i","c","a","t","i","o","n">>],
    [name |-> "HealthChecks", type |-> "ptr", validate |-> "required",
     koanf |-> <<"h","e","a","l","t","h","_","c","h","e","c","k","s">>] >>

----------------------------------------------------------------------------
(* Values *)

NilPtr == <<>>

Ptr(v) == <<v>>

NoError == <<>>

NilSlice == [nil |-> TRUE, elems |-> <<>>]

Slice(elems) == [nil |-> FALSE, elems |-> elems]

\* the Go zero value of a field type
Zero(type) ==
    CASE type \in {"string", "Environment"} -> <<>>
      [] type \in {"uint", "int", "duration"} -> 0
      [] type = "strings" -> NilSlice
      [] type = "bool" -> FALSE
      [] type = "ptr" -> NilPtr

\* the zero value of a struct: &Server{}, &Config{}, ...
ZeroStruct(fields) ==
    [n \in {fields[i].name : i \in DOMAIN fields} |->
        Zero((CHOOSE f \in {fields[i] : i \in DOMAIN fields} : f.name = n).type)]

\* the minimum as an exclusive bound (gt=1s in place of min=1s)
MinDuration_Exclusive == 1000000000 + 1

\* the duration of the tag min=1s, in nanoseconds (time.Second)
MinDuration == 1000000000

----------------------------------------------------------------------------
(* pkg/validation: Check reports the first field, in declaration order,    *)
(* whose validate tag is violated, with the violated rule.                 *)

Violates(rule, type, v) ==
    CASE rule = "required" -> v = Zero(type)
      [] rule = "min=1s" -> v < MinDuration
      [] OTHER -> FALSE

Check(struct, v, fields) ==
    LET bad == {i \in DOMAIN fields :
                  Violates(fields[i].validate, fields[i].type, v[fields[i].name])}
    IN IF bad = {} THEN NoError
       ELSE LET first == CHOOSE i \in bad : \A j \in bad : i <= j
            IN <<[struct |-> struct, field |-> fields[first].name,
                  rule |-> fields[first].validate]>>

----------------------------------------------------------------------------
(* Section validators and Validate *)

\* func (l *Logging) Validate() error
LoggingValidate(l) == Check("Logging", l, LoggingFields)

\* func (s *Service) Validate() error
ServiceValidate(s) == Check("Service", s, ServiceFields)

\* func (s *Server) Validate() error
ServerValidate(s) == Check("Server", s, ServerFields)

\* func (db *Database) Validate() error
DatabaseValidate(db) == Check("Database", db, DatabaseFields)

\* func (hc *HealthChecks) Validate() error
HealthChecksValidate(hc) == Check("HealthChecks", hc, HealthChecksFields)

\* func (s *Service) IsProduction() bool
IsProduction(s) == s.Environment = EnvironmentProduction

\* conf.<Section>.Validate()
SectionValidate(sec, v) ==
    CASE sec = "Server" -> ServerValidate(v)
      [] sec = "Logging" -> LoggingValidate(v)
      [] sec = "Database" -> DatabaseValidate(v)
      [] sec = "Service" -> ServiceValidate(v)
      [] sec = "HealthChecks" -> HealthChecksValidate(v)

\* the blocks of Server and Logging exchanged
ValidationOrder_Swapped == <<"Logging", "Server", "Database", "Service", "HealthChecks">>

\* the block of HealthChecks left out
ValidationOrder_NoHealthChecks == <<"Server", "Logging", "Database", "Service">>

\* the order of the five "if conf.<Section> != nil" blocks of Validate
ValidationOrder == <<"Server", "Logging", "Database", "Service", "HealthChecks">>

\* the blocks of Validate from the first section of order on: a nil section
\* is skipped, the first error is returned, and nil after the last block.
\* ran lists the checks called so far.
RECURSIVE ValidateSections(_, _, _)
ValidateSections(c, order, ran) ==
    IF order = <<>> THEN [err |-> NoError, ran |-> ran]
    ELSE IF c[Head(order)] = NilPtr THEN ValidateSections(c, Tail(order), ran)
    ELSE IF SectionValidate(Head(order), c[Head(order)][1]) # NoError
    THEN [err |-> SectionValidate(Head(order), c[Head(order)][1]),
          ran |-> Append(ran, Head(order))]
    ELSE ValidateSections(c, Tail(order), Append(ran, Head(order)))

\* Validate without its first statement: validation.Check(conf) is not called
Validate_NoStructuralCheck(c) == ValidateSections(c, ValidationOrder, <<>>)

\* func Validate(conf *Config) error.  The result carries, besides the
\* error, the checks that were called, in call order.
Validate(c) ==
    IF Check("Config", c, ConfigFields) # NoError
    THEN [err |-> Check("Config", c, ConfigFields), ran |-> <<"Config">>]
    ELSE ValidateSections(c, ValidationOrder, <<"Config">>)

----------------------------------------------------------------------------
(* Conversions applied by Unmarshal (mapstructure with WeaklyTypedInput    *)
(* and the string-to-duration and string-to-slice hooks).  Each returns    *)
(* [ok, val]; ok = FALSE is a decode error.  Numbers are decimal or octal  *)
(* digit strings and durations one integer followed by one unit; the       *)
(* values the model puts in the environment have no other form, and none   *)
(* has a comma, so that a list value is a single element whether or not    *)
(* the decoder splits at commas.                                           *)

IsDigit(c) == IndexOf(c, Digits) # 0

DigitVal(c) == IndexOf(c, Digits) - 1

RECURSIVE DigitsValue(_, _, _)
DigitsValue(s, base, acc) ==
    IF s = <<>> THEN acc
    ELSE DigitsValue(Tail(s), base, acc * base + DigitVal(Head(s)))

\* strconv.ParseUint(s, 0, 64): base 0 reads a leading "0" as octal
ParseUint(s) ==
    LET base == IF Len(s) > 1 /\ s[1] = "0" THEN 8 ELSE 10
    IN IF s # <<>> /\ \A i \in DOMAIN s : IsDigit(s[i]) /\ DigitVal(s[i]) < base
       THEN [ok |-> TRUE, val |-> DigitsValue(s, base, 0)]
       ELSE [ok |-> FALSE, val |-> 0]

\* strconv.ParseInt(s, 0, 64)
ParseInt(s) ==
    IF s # <<>> /\ s[1] \in {"-", "+"}
    THEN LET u == ParseUint(Tail(s))
         IN [ok |-> u.ok, val |-> IF s[1] = "-" THEN 0 - u.val ELSE u.val]
    ELSE ParseUint(s)

\* nanoseconds per unit (time.Nanosecond .. time.Second)
UnitNanos(u) ==
    CASE u = <<"n","s">> -> 1
      [] u = <<"u","s">> -> 1000
      [] u = <<"m","s">> -> 1000000
      [] u = <<"s">> -> 1000000000
      [] OTHER -> 0

RECURSIVE LeadingDigits(_)
LeadingDigits(s) ==
    IF s # <<>> /\ IsDigit(Head(s)) THEN 1 + LeadingDigits(Tail(s)) ELSE 0

\* time.ParseDuration
ParseDuration(s) ==
    LET n == LeadingDigits(s)
        unit == SubSeq(s, n + 1, Len(s))
    IN IF s = <<"0">> THEN [ok |-> TRUE, val |-> 0]
       ELSE IF n > 0 /\ UnitNanos(unit) # 0
       THEN [ok |-> TRUE, val |-> DigitsValue(SubSeq(s, 1, n), 10, 0) * UnitNanos(unit)]
       ELSE [ok |-> FALSE, val |-> 0]

\* strconv.ParseBool
ParseBool(s) ==
    IF s \in {<<"1">>, <<"t">>, <<"T">>, <<"t","r","u","e">>,
              <<"T","R","U","E">>, <<"T","r","u","e">>}
    THEN [ok |-> TRUE, val |-> TRUE]
    ELSE IF s \in {<<"0">>, <<"f">>, <<"F">>, <<"f","a","l","s","e">>,
                   <<"F","A","L","S","E">>, <<"F","a","l","s","e">>}
    THEN [ok |-> TRUE, val |-> FALSE]
    ELSE [ok |-> FALSE, val |-> FALSE]

\* decoding of one string value into a field of the given type
DecodeField(type, raw) ==
    CASE type \in {"string", "Environment"} -> [ok |-> TRUE, val |-> raw]
      [] type = "uint" -> ParseUint(IF raw = <<>> THEN <<"0">> ELSE raw)
      [] type = "int" -> ParseInt(IF raw = <<>> THEN <<"0">> ELSE raw)
      [] type = "duration" -> ParseDuration(raw)
      [] type = "strings" ->
            [ok |-> TRUE,
             val |-> IF raw = <<>> THEN Slice(<<>>) ELSE Slice(Split(raw, ","))]
      [] type = "bool" ->
            IF raw = <<>> THEN [ok |-> TRUE, val |-> FALSE] ELSE ParseBool(raw)

----------------------------------------------------------------------------
(* LoadFromEnv *)

\* the prefix given to env.Provider and to strings.TrimPrefix
Prefix == <<"B","O","I","L","E","R","P","L","A","T","E","_">>

\* the delimiter given to koanf.New and to env.Provider
Delim == "."

\* the callback given to env.Provider
Callback(s) == ToLower(TrimPrefix(s, Prefix))

\* maps.Unflatten: every key is split at the delimiter into its path
Unflatten(flat, delim) == {<<Split(p[1], delim), p[2]>> : p \in flat}

\* env.Provider(...).Read: the variables that carry the prefix, keyed by
\* Callback(name) (a blank key is dropped), then unflattened.  The result is
\* the set of <<path, value>> of the nested map.  (No two names of the
\* model's environment have the same key, and no path extends another.)
ProviderRead(env) ==
    Unflatten({<<Callback(n), env[n][1]>> : n \in {m \in DOMAIN env :
                  env[m] # <<>> /\ HasPrefix(m, Prefix) /\ Callback(m) # <<>>}},
              Delim)

Get(kmap, path) == (CHOOSE p \in kmap : p[1] = path)[2]

\* decoding of the nested map under the key of one section into a pointer
\* to its struct: nil when the map has no such key, an error when the key
\* holds a string, else a struct whose fields are decoded from the keys
\* equal to their koanf tags and are zero otherwise
DecodeSection(kmap, tag, fields) ==
    LET under == {p[1] : p \in {q \in kmap : q[1][1] = tag}}
        dec == [i \in DOMAIN fields |->
                  IF <<tag, fields[i].koanf>> \in under
                  THEN DecodeField(fields[i].type, Get(kmap, <<tag, fields[i].koanf>>))
                  ELSE [ok |-> TRUE, val |-> Zero(fields[i].type)]]
    IN IF under = {} THEN [ok |-> TRUE, val |-> NilPtr]
       ELSE IF <<tag>> \in under THEN [ok |-> FALSE, val |-> NilPtr]
       ELSE [ok |-> \A i \in DOMAIN fields : dec[i].ok,
             val |-> Ptr([n \in {fields[i].name : i \in DOMAIN fields} |->
                            dec[CHOOSE i \in DOMAIN fields : fields[i].name = n].val])]

SectionFields(name) ==
    CASE name = "Server" -> ServerFields
      [] name = "Logging" -> LoggingFields
      [] name = "Database" -> DatabaseFields
      [] name = "Service" -> ServiceFields
      [] name = "HealthChecks" -> HealthChecksFields

\* k.Unmarshal("", conf) on conf := &Config{}
Unmarshal(kmap) ==
    LET dec == [i \in DOMAIN ConfigFields |->
                  DecodeSection(kmap, ConfigFields[i].koanf,
                                SectionFields(ConfigFields[i].name))]
    IN [ok |-> \A i \in DOMAIN ConfigFields : dec[i].ok,
        val |-> [n \in {ConfigFields[i].name : i \in DOMAIN ConfigFields} |->
                    dec[CHOOSE i \in DOMAIN ConfigFields : ConfigFields[i].name = n].val]]

\* LoadFromEnv returning the partly decoded Config together with the error
LoadFromEnv_ConfWithError(env) ==
    LET u == Unmarshal(ProviderRead(env))
    IN IF ~u.ok THEN [conf |-> Ptr(u.val), err |-> <<"unmarshal">>]
       ELSE [conf |-> Ptr(u.val), err |-> NoError]

\* func LoadFromEnv() (*Config, error).  The provider's Read returns no
\* error, so the first return is never taken.
LoadFromEnv(env) ==
    LET u == Unmarshal(ProviderRead(env))
    IN IF ~u.ok THEN [conf |-> NilPtr, err |-> <<"unmarshal">>]
       ELSE [conf |-> Ptr(u.val), err |-> NoError]

----------------------------------------------------------------------------
(* Inputs: names and values of environment variables *)

Sections == {"Server", "Logging", "Database", "Service", "HealthChecks"}

\* the koanf tag of a section in Config
SectionTag(sec) ==
    (CHOOSE f \in {ConfigFields[i] : i \in DOMAIN ConfigFields} : f.name = sec).koanf

\* the section name used in the documented variable names
DocSection(sec) ==
    CASE sec = "Server" -> <<"s","e","r","v","e","r">>
      [] sec = "Database" -> <<"d","b">>
      [] sec = "Service" -> <<"s","e","r","v","i","c","e">>
      [] sec = "Logging" -> <<"l","o","g","g","i","n","g">>
      [] sec = "HealthChecks" -> <<"h","e","a","l","t","h","_","c","h","e","c","k","s">>

\* the field name used in the documented variable names
DocField(sec, f) == TrimPrefix(f.koanf, DocSection(sec) \o <<"_">>)

\* "flat":    BOILERPLATE_<SECTION>_<FIELD>, e.g. BOILERPLATE_DB_MAX_OPEN_CONNS
\* "dotted":  BOILERPLATE_<SECTION>.<FIELD>, e.g. BOILERPLATE_DB.MAX_OPEN_CONNS
\* "tagpath": BOILERPLATE_<SECTION TAG>.<FIELD TAG>,
\*            e.g. BOILERPLATE_DATABASE.DB_MAX_OPEN_CONNS
Styles == {"flat", "dotted", "tagpath"}

DocumentedStyles == {"flat", "dotted"}

EnvName(style, sec, f) ==
    Prefix \o ToUpper(
        CASE style = "flat" -> DocSection(sec) \o <<"_">> \o DocField(sec, f)
          [] style = "dotted" -> DocSection(sec) \o <<".">> \o DocField(sec, f)
          [] style = "tagpath" -> SectionTag(sec) \o <<".">> \o f.koanf)

FieldsOf(sec) == {SectionFields(sec)[i] : i \in DOMAIN SectionFields(sec)}

\* every (style, section, field) the model has a variable name for
Settings == {<<style, sec, f>> : style \in Styles, sec \in Sections,
                                 f \in UNION {FieldsOf(x) : x \in Sections}}
            \cap {t \in Styles \X Sections \X UNION {FieldsOf(x) : x \in Sections} :
                    t[3] \in FieldsOf(t[2])}

NameOf == [t \in Settings |-> EnvName(t[1], t[2], t[3])]

EnvNames == {NameOf[t] : t \in Settings}

\* the literal a fully specified environment gives to a field of a type
GoodValue(type) ==
    CASE type = "string" -> <<"a","b">>
      [] type = "uint" -> <<"8","0","8","0">>
      [] type = "int" -> <<"2","5">>
      [] type = "duration" -> <<"2","s">>
      [] type = "strings" -> <<"a">>
      [] type = "bool" -> <<"t","r","u","e">>
      [] type = "Environment" -> s_production

\* the values a variable of a field of a type may be set to
ValuesFor(type) ==
    CASE type = "string" -> {<<>>, <<"a","b">>}
      [] type = "uint" -> {<<"8","0","8","0">>, <<"0">>, <<"x">>}
      [] type = "int" -> {<<"2","5">>, <<"0">>, <<"-","1">>, <<"x">>}
      [] type = "duration" -> {<<"2","s">>, <<"1","s">>, <<"5","0","0","m","s">>,
                               <<"0">>, <<"x">>}
      [] type = "strings" -> {<<"a">>, <<"b">>, <<>>}
      [] type = "bool" -> {<<"t","r","u","e">>, <<"f","a","l","s","e">>, <<"x">>}
      [] type = "Environment" -> {s_production, EnvironmentProduction, s_prod,
                                  <<"P","r","o","d">>, s_uat, <<"x">>}

\* the environment in which every setting is given under the names of one style
FullEnv(style) ==
    [n \in EnvNames |->
        IF \E t \in Settings : t[1] = style /\ NameOf[t] = n
        THEN <<GoodValue((CHOOSE t \in Settings : t[1] = style /\ NameOf[t] = n)[3].type)>>
        ELSE <<>>]

\* number of changes made to the initial environment
MaxEdits == 1

----------------------------------------------------------------------------
(* Loading: the environment is changed, then LoadFromEnv and Validate run  *)

InitLoad ==
    /\ pc = "env"
    /\ environ \in {FullEnv(style) : style \in Styles}
    /\ edits = 0
    /\ conf = NilPtr
    /\ loadErr = NoError
    /\ valRes = [err |-> NoError, ran |-> <<>>]
    /\ str = <<>>
    /\ envVal = <<>>
    /\ rendered = <<>>

Setenv(t, v) ==
    /\ pc = "env"
    /\ edits < MaxEdits
    /\ environ[NameOf[t]] # <<v>>
    /\ environ' = [environ EXCEPT ![NameOf[t]] = <<v>>]
    /\ edits' = edits + 1
    /\ UNCHANGED <<pc, conf, loadErr, valRes, str, envVal, rendered>>

Unsetenv(t) ==
    /\ pc = "env"
    /\ edits < MaxEdits
    /\ environ[NameOf[t]] # <<>>
    /\ environ' = [environ EXCEPT ![NameOf[t]] = <<>>]
    /\ edits' = edits + 1
    /\ UNCHANGED <<pc, conf, loadErr, valRes, str, envVal, rendered>>

\* every variable of one section is removed from the environment
UnsetSection(sec) ==
    LET names == {NameOf[t] : t \in {x \in Settings : x[2] = sec}}
    IN /\ pc = "env"
       /\ edits < MaxEdits
       /\ \E n \in names : environ[n] # <<>>
       /\ environ' = [n \in EnvNames |-> IF n \in names THEN <<>> ELSE environ[n]]
       /\ edits' = edits + 1
       /\ UNCHANGED <<pc, conf, loadErr, valRes, str, envVal, rendered>>

Load ==
    /\ pc = "env"
    /\ \E r \in {LoadFromEnv(environ)} :
          /\ conf' = r.conf
          /\ loadErr' = r.err
    /\ pc' = "loaded"
    /\ UNCHANGED <<environ, edits, valRes, str, envVal, rendered>>

\* the caller validates the Config it was given
ValidateLoaded ==
    /\ pc = "loaded"
    /\ loadErr = NoError
    /\ valRes' = Validate(conf[1])
    /\ pc' = "validated"
    /\ UNCHANGED <<environ, edits, conf, loadErr, str, envVal, rendered>>

NextLoad ==
    \/ \E t \in Settings : \E v \in ValuesFor(t[3].type) : Setenv(t, v)
    \/ \E t \in Settings : Unsetenv(t)
    \/ \E sec \in Sections : UnsetSection(sec)
    \/ Load
    \/ ValidateLoaded

SpecLoad == InitLoad /\ [][NextLoad]_vars

----------------------------------------------------------------------------
(* Validation of Config values built directly by a caller *)

\* a well-formed value of a field of a type
GoodFieldValue(type) ==
    CASE type = "string" -> <<"a","b">>
      [] type = "uint" -> 8080
      [] type = "int" -> 25
      [] type = "duration" -> 2000000000
      [] type = "strings" -> Slice(<< <<"a">>, <<"b">> >>)
      [] type = "bool" -> TRUE
      [] type = "Environment" -> EnvironmentProduction

\* the values a caller may give to a field of a type
FieldValues(type) ==
    CASE type = "string" -> {<<>>, <<"a","b">>}
      [] type = "uint" -> {0, 8080}
      [] type = "int" -> {0, 25, 0 - 1}
      [] type = "duration" -> {0, 500000000, 999999999, 1000000000,
                               1000000001, 2000000000}
      [] type = "strings" -> {NilSlice, Slice(<<>>), Slice(<< <<"a">> >>)}
      [] type = "bool" -> BOOLEAN
      [] type = "Environment" -> {<<>>, EnvironmentProduction, EnvironmentStaging, s_prod}

GoodStruct(fields) ==
    [n \in {fields[i].name : i \in DOMAIN fields} |->
        GoodFieldValue((CHOOSE f \in {fields[i] : i \in DOMAIN fields} : f.name = n).type)]

ValidConfig == [sec \in Sections |-> Ptr(GoodStruct(SectionFields(sec)))]

\* the Config whose sections are all present and zero
ZeroedConfig == [sec \in Sections |-> Ptr(ZeroStruct(SectionFields(sec)))]

\* number of changes made to the initial Config
MaxMutations == 2

InitValidate ==
    /\ pc = "build"
    /\ conf \in {Ptr(ValidConfig), Ptr(ZeroedConfig), Ptr(ZeroStruct(ConfigFields))}
    /\ edits = 0
    /\ environ = <<>>
    /\ loadErr = NoError
    /\ valRes = [err |-> NoError, ran |-> <<>>]
    /\ str = <<>>
    /\ envVal = <<>>
    /\ rendered = <<>>

SetField(sec, f, v) ==
    /\ pc = "build"
    /\ edits < MaxMutations
    /\ conf[1][sec] # NilPtr
    /\ conf[1][sec][1][f.name] # v
    /\ conf' = [conf EXCEPT ![1][sec][1][f.name] = v]
    /\ edits' = edits + 1
    /\ UNCHANGED <<pc, environ, loadErr, valRes, str, envVal, rendered>>

\* the section pointer is set to nil or to a pointer to the zero struct
SetSection(sec, p) ==
    /\ pc = "build"
    /\ edits < MaxMutations
    /\ conf[1][sec] # p
    /\ conf' = [conf EXCEPT ![1][sec] = p]
    /\ edits' = edits + 1
    /\ UNCHANGED <<pc, environ, loadErr, valRes, str, envVal, rendered>>

ValidateBuilt ==
    /\ pc = "build"
    /\ valRes' = Validate(conf[1])
    /\ pc' = "validated"
    /\ UNCHANGED <<environ, edits, conf, loadErr, str, envVal, rendered>>

NextValidate ==
    \/ \E sec \in Sections : \E f \in FieldsOf(sec) : \E v \in FieldValues(f.type) :
          SetField(sec, f, v)
    \/ \E sec \in Sections : \E p \in {NilPtr, Ptr(ZeroStruct(SectionFields(sec)))} :
          SetSection(sec, p)
    \/ ValidateBuilt

SpecValidate == InitValidate /\ [][NextValidate]_vars

----------------------------------------------------------------------------
(* The Environment enum on its own *)

\* every spelling of a word in upper and lower case letters
RECURSIVE Casings(_)
Casings(w) ==
    IF w = <<>> THEN {<<>>}
    ELSE {<<c>> \o r : c \in {Head(w), ToUpperChar(Head(w))}, r \in Casings(Tail(w))}

Aliases == {s_prod, s_production, s_staging, s_uat, s_qa, s_testing,
            s_dev, s_develop, s_development, s_local}

\* strings that are no casing of an alias
OtherStrings ==
    { <<>>, <<"g","a","r","b","a","g","e">>, <<"p","r","o">>, <<"p","r","o","d","s">>,
      <<"p","r","o","d"," ">>, <<" ","P","R","O","D">>, <<"s","t","a","g","e">>,
      <<"t","e","s","t">>, <<"Q","A","1">>, <<"l","i","v","e">>, <<"D","E","V","S">>,
      <<"p","r","o","d","u","c","t","i","o","n","s">>, <<"P","R","O","D","U","C","T","I","0","N">>,
      <<"u","-","a","t">>, <<"l","o","c","a","l","h","o","s","t">>, <<"x">> }

EnumInputs == UNION {Casings(w) : w \in Aliases} \cup OtherStrings

DefinedEnvironments == {EnvironmentStaging, EnvironmentProduction, EnvironmentDevelopment}

InitEnum ==
    /\ pc = "enum"
    /\ str \in EnumInputs
    /\ envVal = <<>>
    /\ rendered = <<>>
    /\ environ = <<>>
    /\ edits = 0
    /\ conf = NilPtr
    /\ loadErr = NoError
    /\ valRes = [err |-> NoError, ran |-> <<>>]

\* envVal := ToEnvironment(str)
Parse ==
    /\ pc = "enum"
    /\ envVal' = ToEnvironment(str)
    /\ pc' = "parsed"
    /\ UNCHANGED <<environ, edits, conf, loadErr, valRes, str, rendered>>

\* envVal := Environment(str): the string is stored in the field as it is
Store ==
    /\ pc = "enum"
    /\ envVal' = str
    /\ pc' = "stored"
    /\ UNCHANGED <<environ, edits, conf, loadErr, valRes, str, rendered>>

\* rendered := envVal.String()
Render ==
    /\ pc \in {"parsed", "stored"}
    /\ rendered' = String(envVal)
    /\ pc' = IF pc = "stored" THEN "stored_rendered" ELSE "parsed_rendered"
    /\ UNCHANGED <<environ, edits, conf, loadErr, valRes, str, envVal>>

\* envVal := ToEnvironment(rendered), with str still the value rendered
Reparse ==
    /\ pc = "stored_rendered"
    /\ envVal' = ToEnvironment(rendered)
    /\ pc' = "reparsed"
    /\ UNCHANGED <<environ, edits, conf, loadErr, valRes, str, rendered>>

NextEnum == Parse \/ Store \/ Render \/ Reparse

SpecEnum == InitEnum /\ [][NextEnum]_vars

----------------------------------------------------------------------------
(* Well-formedness of a Config, stated field by field *)

\* one second, in nanoseconds
OneSecond == 1000000000

ServerOk(v) ==
    /\ v.Host # <<>> /\ v.Port # 0
    /\ v.ReadTimeout # 0 /\ v.WriteTimeout # 0
    /\ v.IdleTimeout # 0 /\ v.ShutdownTimeout # 0

LoggingOk(v) == v.Level # <<>> /\ ~v.OutputPaths.nil

DatabaseOk(v) ==
    /\ v.Host # <<>> /\ v.Port # 0 /\ v.User # <<>> /\ v.Name # <<>>
    /\ v.SSLMode # <<>> /\ v.MaxOpenConns # 0 /\ v.MaxIdleConns # 0
    /\ v.ConnMaxLifetime # 0 /\ v.ConnMaxIdleTime # 0

ServiceOk(v) == v.Name # <<>> /\ v.Version # <<>> /\ v.Environment # <<>>

HealthChecksOk(v) == v.Timeout >= OneSecond /\ v.Interval >= OneSecond

SectionOk(sec, v) ==
    CASE sec = "Server" -> ServerOk(v)
      [] sec = "Logging" -> LoggingOk(v)
      [] sec = "Database" -> DatabaseOk(v)
      [] sec = "Service" -> ServiceOk(v)
      [] sec = "HealthChecks" -> HealthChecksOk(v)

WellFormed(c) == \A sec \in Sections : c[sec] # NilPtr /\ SectionOk(sec, c[sec][1])

----------------------------------------------------------------------------
(* Claims about Validate *)

\* C2: Validate returns nil exactly when the Config is well-formed: all five
\* sections non-null, every required field non-zero (Password is not
\* required) and HealthChecks Timeout and Interval at least 1s.
C2_NilIffWellFormed ==
    pc = "validated" => (valRes.err = NoError <=> WellFormed(conf[1]))

\* a Config that differs from the well-formed one only in an empty Password
\* was accepted
C2_Witness ==
    /\ pc = "validated" /\ edits > 0
    /\ valRes.err = NoError
    /\ conf[1].Database # NilPtr /\ conf[1].Database[1].Password = <<>>

\* the checks in the order of the claim
CheckOrder == <<"Config", "Server", "Logging", "Database", "Service", "HealthChecks">>

\* check number k of CheckOrder fails on c (a section check concerns a
\* section that is present)
CheckFails(c, k) ==
    IF k = 1 THEN \E sec \in Sections : c[sec] = NilPtr
    ELSE c[CheckOrder[k]] # NilPtr /\ ~SectionOk(CheckOrder[k], c[CheckOrder[k]][1])

FailingChecks(c) == {k \in DOMAIN CheckOrder : CheckFails(c, k)}

\* C3: the checks run in the order structural, Server, Logging, Database,
\* Service, HealthChecks; the error returned is that of the earliest failing
\* check, no check runs after it, and one error at most is returned.
C3_FirstFailureOnly ==
    pc = "validated" =>
        LET failing == FailingChecks(conf[1])
            first == CHOOSE k \in failing : \A j \in failing : k <= j
        IN /\ Len(valRes.err) <= 1
           /\ valRes.ran = SubSeq(CheckOrder, 1, Len(valRes.ran))
           /\ IF failing = {}
              THEN valRes.err = NoError /\ valRes.ran = CheckOrder
              ELSE /\ valRes.err # NoError
                   /\ valRes.err[1].struct = CheckOrder[first]
                   /\ Len(valRes.ran) = first

\* Logging and Service are both invalid; the error is the one of Logging and
\* the checks of Database, Service and HealthChecks did not run
C3_Witness ==
    /\ pc = "validated"
    /\ conf[1].Logging # NilPtr /\ conf[1].Service # NilPtr
    /\ WellFormed([conf[1] EXCEPT !.Logging = ValidConfig.Logging,
                                  !.Service = ValidConfig.Service])
    /\ ~LoggingOk(conf[1].Logging[1]) /\ ~ServiceOk(conf[1].Service[1])
    /\ valRes.err # NoError /\ valRes.err[1].struct = "Logging"
    /\ valRes.ran = <<"Config", "Server", "Logging">>

\* C4 as stated: every null section is named by the error returned, whatever
\* the other sections are, and no validator runs on a null section.
C4_Original ==
    pc = "validated" =>
        \A sec \in Sections :
            conf[1][sec] = NilPtr =>
                /\ valRes.err # NoError
                /\ valRes.err[1].field = sec
                /\ \A i \in DOMAIN valRes.ran : valRes.ran[i] # sec

NullSections(c) == {k \in DOMAIN ValidationOrder : c[ValidationOrder[k]] = NilPtr}

\* C4 amended: when a section is null, Validate returns the error of the
\* structural check, which names the first null section in the order
\* Server, Logging, Database, Service, HealthChecks, and no section
\* validator runs.
C4_NullSectionReported ==
    pc = "validated" =>
        LET null == NullSections(conf[1])
            first == CHOOSE k \in null : \A j \in null : k <= j
        IN null # {} =>
              /\ valRes.err # NoError
              /\ valRes.err[1].struct = "Config"
              /\ valRes.err[1].rule = "required"
              /\ valRes.err[1].field = ValidationOrder[first]
              /\ valRes.ran = <<"Config">>

\* only Database is null, Server is invalid as well, the error names Database
C4_Witness ==
    /\ pc = "validated"
    /\ NullSections(conf[1]) = {3}
    /\ conf[1].Database = NilPtr
    /\ ~ServerOk(conf[1].Server[1])
    /\ valRes.err # NoError /\ valRes.err[1].field = "Database"

\* every section but HealthChecks is present and valid, HealthChecks is present
OtherwiseValid(c) ==
    /\ \A sec \in Sections : c[sec] # NilPtr
    /\ \A sec \in Sections \ {"HealthChecks"} : SectionOk(sec, c[sec][1])

\* C8: on an otherwise valid Config, Validate fails exactly when Timeout or
\* Interval of HealthChecks is below one second; one second is accepted.
C8_HealthChecksMinimum ==
    (pc = "validated" /\ OtherwiseValid(conf[1])) =>
        (valRes.err # NoError <=>
            \/ conf[1].HealthChecks[1].Timeout < OneSecond
            \/ conf[1].HealthChecks[1].Interval < OneSecond)

\* Timeout and Interval are both exactly one second and Validate accepted
C8_Witness ==
    /\ pc = "validated" /\ OtherwiseValid(conf[1])
    /\ conf[1].HealthChecks[1].Timeout = OneSecond
    /\ conf[1].HealthChecks[1].Interval = OneSecond
    /\ valRes.err = NoError

----------------------------------------------------------------------------
(* Claims about the Environment enum *)

\* s spells the word w, each letter in either case
IsCasingOf(s, w) ==
    /\ Len(s) = Len(w)
    /\ \A i \in DOMAIN w : s[i] = w[i] \/ s[i] = ToUpperChar(w[i])

\* the value the claim gives for a string
ExpectedEnvironment(s) ==
    IF \E w \in {s_prod, s_production} : IsCasingOf(s, w)
    THEN EnvironmentProduction
    ELSE IF \E w \in {s_staging, s_uat, s_qa, s_testing} : IsCasingOf(s, w)
    THEN EnvironmentStaging
    ELSE EnvironmentDevelopment

\* C5: ToEnvironment yields Production for any casing of prod / production,
\* Staging for any casing of staging / uat / qa / testing, and Development
\* for any casing of dev / develop / development / local and for every
\* other string.
C5_ToEnvironmentAliases ==
    pc = "parsed" => envVal = ExpectedEnvironment(str)

\* a mixed-case alias was parsed to Production
C5_Witness ==
    /\ pc = "parsed"
    /\ str = <<"P","r","O","d">>
    /\ envVal = EnvironmentProduction

\* C6: ToEnvironment(e.String()) = e for the three defined values e.
C6_RoundTrip ==
    (pc = "reparsed" /\ str \in DefinedEnvironments) => envVal = str

\* Staging was rendered and parsed back to Staging
C6_Witness ==
    /\ pc = "reparsed"
    /\ str = EnvironmentStaging
    /\ rendered = s_staging
    /\ envVal = EnvironmentStaging

\* C7: String returns the matching lowercase name for the three defined
\* values and "development" for every other value, the empty value and
\* lowercase or alias spellings included.
C7_StringTotal ==
    pc \in {"stored_rendered", "parsed_rendered"} =>
        /\ rendered \in {s_staging, s_production, s_development}
        /\ envVal = EnvironmentStaging => rendered = s_staging
        /\ envVal = EnvironmentProduction => rendered = s_production
        /\ envVal = EnvironmentDevelopment => rendered = s_development
        /\ envVal \notin DefinedEnvironments => rendered = s_development

\* the alias "prod" stored in the field was rendered as "development"
C7_Witness ==
    /\ pc = "stored_rendered"
    /\ envVal = s_prod
    /\ rendered = s_development

----------------------------------------------------------------------------
(* Claims about LoadFromEnv *)

Required(f) == f.validate # ""

\* the values given for a field under its documented names
DocumentedValues(env, sec, f) ==
    {env[NameOf[<<style, sec, f>>]][1] :
        style \in {x \in DocumentedStyles : env[NameOf[<<x, sec, f>>]] # <<>>}}

\* the literals that are valid for a field: those of a fully specified
\* environment and, for the durations of HealthChecks, one second
ValidLiterals(sec, f) ==
    {GoodValue(f.type)} \cup (IF f.type = "duration" THEN {<<"1","s">>} ELSE {})

\* the value a literal denotes in the type of the field
Denotes(type, lit) ==
    CASE lit = <<"a","b">> /\ type = "string" -> <<"a","b">>
      [] lit = <<"8","0","8","0">> /\ type = "uint" -> 8080
      [] lit = <<"2","5">> /\ type = "int" -> 25
      [] lit = <<"2","s">> /\ type = "duration" -> 2 * OneSecond
      [] lit = <<"1","s">> /\ type = "duration" -> OneSecond
      [] lit = <<"a">> /\ type = "strings" -> Slice(<< <<"a">> >>)
      [] lit = <<"t","r","u","e">> /\ type = "bool" -> TRUE
      [] lit = s_production /\ type = "Environment" -> s_production

\* every setting is given, under a documented name, one valid literal
FullySpecified(env) ==
    \A sec \in Sections : \A f \in FieldsOf(sec) :
        /\ Cardinality(DocumentedValues(env, sec, f)) = 1
        /\ DocumentedValues(env, sec, f) \subseteq ValidLiterals(sec, f)

\* C1: on an environment that gives every setting under its documented
\* name, LoadFromEnv and Validate return no error and every field of the
\* Config equals the literal given for it.
C1_DocumentedNamesLoad ==
    (pc \in {"loaded", "validated"} /\ FullySpecified(environ)) =>
        /\ loadErr = NoError
        /\ conf # NilPtr
        /\ pc = "validated" => valRes.err = NoError
        /\ \A sec \in Sections : \A f \in FieldsOf(sec) :
              /\ conf[1][sec] # NilPtr
              /\ \A lit \in DocumentedValues(environ, sec, f) :
                    conf[1][sec][1][f.name] = Denotes(f.type, lit)

\* the variable LoadFromEnv reads for a field is not in the environment
Missing(env, sec, f) == env[NameOf[<<"tagpath", sec, f>>]] = <<>>

\* a variable LoadFromEnv reads for a field holds a value that cannot be
\* converted to the type of the field
Unconvertible(type, lit) ==
    CASE type \in {"uint", "int", "bool"} -> lit = <<"x">>
      [] type = "duration" -> lit \in {<<"x">>, <<>>}
      [] OTHER -> FALSE

UnmarshalFails(env) ==
    \E sec \in Sections : \E f \in FieldsOf(sec) :
        /\ ~Missing(env, sec, f)
        /\ Unconvertible(f.type, env[NameOf[<<"tagpath", sec, f>>]][1])

\* the outcomes of LoadFromEnv and its treatment of a missing entry: no load
\* error comes from it, and its field is zero (in a section that is nil when
\* it has no entry at all)
LoadOutcomes ==
    pc \in {"loaded", "validated"} =>
        /\ \/ conf # NilPtr /\ loadErr = NoError
           \/ conf = NilPtr /\ loadErr # NoError
        /\ loadErr # NoError <=> UnmarshalFails(environ)
        /\ loadErr = NoError =>
              \A sec \in Sections : \A f \in FieldsOf(sec) :
                 Missing(environ, sec, f) =>
                    \/ conf[1][sec] = NilPtr
                    \/ conf[1][sec][1][f.name] = Zero(f.type)

\* C9 as stated: LoadFromEnv returns a Config and no error, or no Config and
\* an error (only when the unmarshal step fails); a missing entry is no load
\* error, leaves its field zero, and is then reported by Validate.
C9_Original ==
    /\ LoadOutcomes
    /\ pc = "validated" =>
          ((\E sec \in Sections : \E f \in FieldsOf(sec) : Missing(environ, sec, f))
              => valRes.err # NoError)

\* C9 amended: as stated, but the omission is reported by Validate when the
\* missing entry is that of a field Validate requires (every field but
\* Database.Password, HealthChecks.Enabled and HealthChecks.Checks).
C9_LoadOutcomes ==
    /\ LoadOutcomes
    /\ pc = "validated" =>
          ((\E sec \in Sections : \E f \in FieldsOf(sec) :
                Required(f) /\ Missing(environ, sec, f))
              => valRes.err # NoError)

\* the variable of Server.Port alone is missing: the load succeeded, the
\* port is zero and Validate reported it
C9_Witness ==
    /\ pc = "validated"
    /\ \A sec \in Sections : \A f \in FieldsOf(sec) :
          Missing(environ, sec, f) <=> (sec = "Server" /\ f.name = "Port")
    /\ loadErr = NoError
    /\ conf[1].Server[1].Port = 0
    /\ valRes.err # NoError /\ valRes.err[1].field = "Port"

\* the value given for the environment of the service, under the name
\* LoadFromEnv reads
GivenEnvironment(env) ==
    env[<<"B","O","I","L","E","R","P","L","A","T","E","_","A","P","P","L","I",
          "C","A","T","I","O","N",".","S","E","R","V","I","C","E","_","E","N",
          "V","I","R","O","N","M","E","N","T">>]

\* C10: in every Config that LoadFromEnv returns and Validate accepts,
\* Service.Environment is Development, Staging or Production, and
\* IsProduction holds when the variable was set to any casing of prod or
\* production.
C10_ClosedEnvironment ==
    (pc = "validated" /\ valRes.err = NoError) =>
        /\ conf[1].Service[1].Environment \in DefinedEnvironments
        /\ (/\ GivenEnvironment(environ) # <<>>
            /\ \E w \in {s_prod, s_production} :
                  IsCasingOf(GivenEnvironment(environ)[1], w))
              => IsProduction(conf[1].Service[1])

====
